---------------------------- MODULE Spec2Model ----------------------------
(***************************************************************************)
(* A model of the barcode script: src/app.py (BarcodeDetector and          *)
(* BarcodeDecoder) and src/main.py (main).                                 *)
(*                                                                         *)
(* Four specifications share the module:                                   *)
(*   Spec        the run of main(): construction, decode_barcode with its  *)
(*               preprocessing, preview window and decode call, and the    *)
(*               printing of the result.                                   *)
(*   FairSpec    Spec with weak fairness on the program's own steps (the   *)
(*               interpreter always takes the next step of a sequential    *)
(*               program); the key press is the user's and is not fair.    *)
(*   SpecPre     preprocess_image as a function of the stored image,       *)
(*               applied to an image and then to its own output.           *)
(*   SpecExtract extract_barcode applied to an image and a rectangle.      *)
(*                                                                         *)
(* An image is a record [h, w, px] with px[r][c] the pixel of row r and    *)
(* column c, both counted from 1 (Python counts from 0; every operator     *)
(* below that takes a Python index says so).                               *)
(***************************************************************************)
EXTENDS Integers, Sequences, FiniteSets

\* --------------------------------------------------------------- bounds
\* Images of SpecPre have at most MaxPixels pixels.
MaxPixels == 7
\* Images of SpecExtract have at most MaxDim rows and MaxDim columns.
MaxDim == 3
\* Rectangle corners range over -MaxCoord..MaxCoord.
MaxCoord == 4
\* Rectangle widths and heights range over 0..MaxExtent.
MaxExtent == 4
\* The decode primitive yields at most MaxCands candidates.
MaxCands == 2

\* Grey levels the stored images are drawn from.
Levels == {0, 100, 255}

Max(a, b) == IF a > b THEN a ELSE b
Min(a, b) == IF a < b THEN a ELSE b

\* Python's None, a str (its code points) and a symbology tag, as tagged
\* records so that any two values can be compared.
None == [tag |-> "None"]
Str(chars) == [tag |-> "str", chars |-> chars]
Sym(name) == [tag |-> "type", name |-> name]
\* A variable not yet assigned.
Unset == [tag |-> "unset"]

\* ------------------------------------------------------- OpenCV primitives
\* maxval of cv2.threshold(blur, 0, 255, ...).
MaxVal == 255

\* The 5-tap kernel cv2.GaussianBlur uses for ksize (5, 5) and sigma 0 on
\* 8-bit images, in sixteenths: (1, 4, 6, 4, 1) / 16.
GaussKernel == <<1, 4, 6, 4, 1>>

\* cv::borderInterpolate for BORDER_REFLECT_101 (the default border of
\* GaussianBlur): the 0-based index inside 0..len-1 that the 0-based index p
\* reflects to.
RECURSIVE BorderInterpolate(_, _)
BorderInterpolate(p, len) ==
  IF len = 1 THEN 0
  ELSE IF p < 0 THEN BorderInterpolate(-p, len)
  ELSE IF p >= len THEN BorderInterpolate(2 * len - 2 - p, len)
  ELSE p

\* One pass of the kernel along a line v of n values (v[k] the value at the
\* 1-based index k), at the 1-based position c (the taps are c-2 .. c+2).
Taps(v, c, n) ==
    GaussKernel[1] * v[BorderInterpolate(c - 3, n) + 1]
  + GaussKernel[2] * v[BorderInterpolate(c - 2, n) + 1]
  + GaussKernel[3] * v[BorderInterpolate(c - 1, n) + 1]
  + GaussKernel[4] * v[BorderInterpolate(c, n) + 1]
  + GaussKernel[5] * v[BorderInterpolate(c + 1, n) + 1]

\* cv2.GaussianBlur(im, (5, 5), 0) on an 8-bit single-channel image: the
\* separable kernel along the rows, then along the columns, in exact fixed
\* point, rounded to the nearest integer (the sum is in 256ths).
GaussianBlur(im) ==
  LET hor == [r \in 1..im.h |-> [c \in 1..im.w |-> Taps(im.px[r], c, im.w)]]
  IN [h |-> im.h, w |-> im.w,
      px |-> [r \in 1..im.h |-> [c \in 1..im.w |->
                (Taps([k \in 1..im.h |-> hor[k][c]], r, im.h) + 128) \div 256]]]

\* The grey levels of an image, and its histogram statistics.
LevelsOf(im) == {im.px[r][c] : r \in 1..im.h, c \in 1..im.w}
CountOf(im, lv) ==
  Cardinality({p \in (1..im.h) \X (1..im.w) : im.px[p[1]][p[2]] = lv})

\* sigma_a > sigma_b for two between-class variances given as a^2 / m with
\* m > 0 (sigma = q1 * q2 * (mu1 - mu2)^2 is, in whole numbers,
\* (s1 * n2 - s2 * n1)^2 / (n1 * n2) over N^2): compared by quotient and
\* remainder so that no product leaves 32 bits.
SigmaGreater(a, ma, b, mb) ==
  LET qa == (a * a) \div ma
      ra == (a * a) % ma
      qb == (b * b) \div mb
      rb == (b * b) % mb
  IN qa > qb \/ (qa = qb /\ ra * mb > rb * ma)

\* The loop of cv::getThreshVal_Otsu_8u over the grey levels i in rising
\* order. Only a level the image holds changes q1, so only these levels can
\* change the two classes: the loop runs over `todo`, the levels of the image
\* not yet visited. n1 and s1 are the count and the sum of the pixels <= i,
\* (bestA, bestM) is max_sigma. The library compares sigma > max_sigma in
\* double precision: where two levels give exactly the same sigma, rounding
\* decides which of them max_val ends at, so the loop keeps every such level
\* in bestVals, the values max_val may end at.
RECURSIVE OtsuLoop(_, _, _, _, _, _, _, _, _)
OtsuLoop(im, todo, n, s, n1, s1, bestA, bestM, bestVals) ==
  IF todo = {} THEN bestVals
  ELSE
    LET i == CHOOSE x \in todo : \A y \in todo : x <= y
        k == CountOf(im, i)
        m1 == n1 + k
        t1 == s1 + i * k
        m2 == n - m1
        t2 == s - t1
        a == t1 * m2 - t2 * m1
    IN IF m1 = 0 \/ m2 = 0
         THEN OtsuLoop(im, todo \ {i}, n, s, m1, t1, bestA, bestM, bestVals)
       ELSE IF SigmaGreater(a, m1 * m2, bestA, bestM)
         THEN OtsuLoop(im, todo \ {i}, n, s, m1, t1, a, m1 * m2, {i})
       ELSE IF ~SigmaGreater(bestA, bestM, a, m1 * m2)
         THEN OtsuLoop(im, todo \ {i}, n, s, m1, t1, bestA, bestM,
                       bestVals \cup {i})
       ELSE OtsuLoop(im, todo \ {i}, n, s, m1, t1, bestA, bestM, bestVals)

RECURSIVE SumLevels(_, _)
SumLevels(im, lvs) ==
  IF lvs = {} THEN 0
  ELSE LET i == CHOOSE x \in lvs : TRUE
       IN i * CountOf(im, i) + SumLevels(im, lvs \ {i})

\* The thresholds Otsu's method may pick (max_sigma = 0 and max_val = 0 at
\* the start of the loop): one value unless two levels tie.
OtsuThresholds(im) ==
  OtsuLoop(im, LevelsOf(im), im.h * im.w, SumLevels(im, LevelsOf(im)),
           0, 0, 0, 1, {0})

\* THRESH_BINARY: maxval where the pixel is above the threshold, else 0.
BinaryAtLeastPixel(v, thresh) == IF v >= thresh THEN MaxVal ELSE 0
BinaryPixel(v, thresh) == IF v > thresh THEN MaxVal ELSE 0

Binarize(im, t) ==
  [h |-> im.h, w |-> im.w,
   px |-> [r \in 1..im.h |-> [c \in 1..im.w |-> BinaryPixel(im.px[r][c], t)]]]

\* cv2.threshold(im, 0, 255, cv2.THRESH_BINARY + cv2.THRESH_OTSU)[1]: the
\* images it may return.
NoThreshold(im) == {im}
Threshold(im) == {Binarize(im, t) : t \in OtsuThresholds(im)}

\* preprocess_image on a readable image, lines 15 to 20: the images it may
\* return.
Preprocess(im) == Threshold(GaussianBlur(im))

\* ------------------------------------------------------------ the images
ImagesOfShape(h, w, lvs) ==
  {[h |-> h, w |-> w, px |-> p] : p \in [1..h -> [1..w -> lvs]]}

Shapes(maxPixels) ==
  {s \in (1..maxPixels) \X (1..maxPixels) : s[1] * s[2] <= maxPixels}

Images == UNION {ImagesOfShape(s[1], s[2], Levels) : s \in Shapes(MaxPixels)}

\* Images of SpecExtract: one per shape, every pixel holding a value of its
\* own, so that a pixel of the result names the place it was taken from.
TaggedImage(h, w) ==
  [h |-> h, w |-> w, px |-> [r \in 1..h |-> [c \in 1..w |-> (r - 1) * w + c]]]
ExtractImages == {TaggedImage(h, w) : h \in 1..MaxDim, w \in 1..MaxDim}

\* Rectangles (x, y, w, h) of a barcode candidate.
Rects ==
  (-MaxCoord..MaxCoord) \X (-MaxCoord..MaxCoord) \X (0..MaxExtent) \X (0..MaxExtent)

\* ------------------------------------------------------- region extraction
\* Python's slice start:stop on an axis of n entries (PySlice_AdjustIndices
\* with step 1): a negative index counts from the end, and both ends are
\* clamped to 0..n. lo is the 0-based index of the first entry taken.
SliceIndex(i, n) == IF i < 0 THEN Max(i + n, 0) ELSE Min(i, n)
Slice(start, stop, n) ==
  LET lo == SliceIndex(start, n)
      hi == SliceIndex(stop, n)
  IN [lo |-> lo, len |-> Max(hi - lo, 0)]

\* image[rows, cols] for two slices.
Crop(image, rows, cols) ==
  [h |-> rows.len, w |-> cols.len,
   px |-> [r \in 1..rows.len |-> [c \in 1..cols.len |->
             image.px[rows.lo + r][cols.lo + c]]]]

\* extract_barcode with the axes swapped: image[x:x+w, y:y+h].
extract_barcode_swapped(image, barcode) ==
  LET x == barcode.rect[1]
      y == barcode.rect[2]
      w == barcode.rect[3]
      h == barcode.rect[4]
  IN Crop(image, Slice(x, x + w, image.h), Slice(y, y + h, image.w))

\* extract_barcode with the extents taken for end coordinates: image[y:h, x:w].
extract_barcode_ends(image, barcode) ==
  LET x == barcode.rect[1]
      y == barcode.rect[2]
      w == barcode.rect[3]
      h == barcode.rect[4]
  IN Crop(image, Slice(y, h, image.h), Slice(x, w, image.w))

\* extract_barcode: x, y, w, h = barcode.rect; image[y:y+h, x:x+w].
extract_barcode(image, barcode) ==
  LET x == barcode.rect[1]
      y == barcode.rect[2]
      w == barcode.rect[3]
      h == barcode.rect[4]
  IN Crop(image, Slice(y, y + h, image.h), Slice(x, x + w, image.w))

\* ------------------------------------------------------------------ UTF-8
IsCont(b) == 128 <= b /\ b <= 191

\* The number of bytes of the UTF-8 sequence that starts bs (a non-empty
\* byte sequence), or 0 when bs starts with no well-formed sequence: what
\* bytes.decode("utf-8") accepts in strict mode.
Utf8SeqLen(bs) ==
  LET b == bs[1]
      n == Len(bs)
  IN IF b < 128 THEN 1
     ELSE IF 194 <= b /\ b <= 223
       THEN IF n >= 2 /\ IsCont(bs[2]) THEN 2 ELSE 0
     ELSE IF 224 <= b /\ b <= 239
       THEN IF /\ n >= 3
               /\ IsCont(bs[2])
               /\ IsCont(bs[3])
               /\ (b = 224 => bs[2] >= 160)
               /\ (b = 237 => bs[2] <= 159)
            THEN 3 ELSE 0
     ELSE IF 240 <= b /\ b <= 244
       THEN IF /\ n >= 4
               /\ IsCont(bs[2])
               /\ IsCont(bs[3])
               /\ IsCont(bs[4])
               /\ (b = 240 => bs[2] >= 144)
               /\ (b = 244 => bs[2] <= 143)
            THEN 4 ELSE 0
     ELSE 0

\* The code point of the well-formed sequence of k bytes that starts bs.
Utf8CodePoint(bs, k) ==
  IF k = 1 THEN bs[1]
  ELSE IF k = 2 THEN (bs[1] - 192) * 64 + (bs[2] - 128)
  ELSE IF k = 3 THEN (bs[1] - 224) * 4096 + (bs[2] - 128) * 64 + (bs[3] - 128)
  ELSE (bs[1] - 240) * 262144 + (bs[2] - 128) * 4096
       + (bs[3] - 128) * 64 + (bs[4] - 128)

\* Whether bs.decode("utf-8") succeeds (else it raises UnicodeDecodeError).
RECURSIVE Utf8Valid(_)
Utf8Valid(bs) ==
  IF bs = <<>> THEN TRUE
  ELSE LET k == Utf8SeqLen(bs)
       IN k > 0 /\ Utf8Valid(SubSeq(bs, k + 1, Len(bs)))

\* The code points of bs.decode("utf-8"), for a valid bs.
RECURSIVE Utf8Chars(_)
Utf8Chars(bs) ==
  IF bs = <<>> THEN <<>>
  ELSE LET k == Utf8SeqLen(bs)
       IN <<Utf8CodePoint(bs, k)>> \o Utf8Chars(SubSeq(bs, k + 1, Len(bs)))

\* ------------------------------------------------- the decode primitive
\* Payloads of a candidate: b"", b"Hi", the two bytes of U+00E9, the three
\* bytes of U+20AC, a sequence cut short and a byte no UTF-8 text holds.
Payloads == {<<>>, <<72, 105>>, <<195, 169>>, <<226, 130, 172>>, <<195>>, <<255>>}
Symbologies == {"QRCODE", "EAN13"}
Candidates == [data : Payloads, type : Symbologies]

\* What the decode primitive may yield: a list of zero to MaxCands
\* candidates, in the order the library returns them.
DecodeOutcomes == UNION {[1..n -> Candidates] : n \in 0..MaxCands}

\* What the path may hold: nothing readable, or a stored grey image.
StoredShapes == {<<1, 2>>, <<2, 1>>}
StoredImages == UNION {ImagesOfShape(s[1], s[2], Levels) : s \in StoredShapes}
FileContents == {None} \cup StoredImages

\* cv2.imread(path): None when the path holds no readable image (no
\* exception); a stored grey image comes back with its three channels equal.
ImreadColor(content) ==
  IF content = None THEN None
  ELSE [h |-> content.h, w |-> content.w,
        px |-> [r \in 1..content.h |-> [c \in 1..content.w |->
                  <<content.px[r][c], content.px[r][c], content.px[r][c]>>]]]

\* cv2.imread(path, cv2.IMREAD_GRAYSCALE): None, or the single channel.
ImreadGray(content) == content

\* ------------------------------------------------------------------ state
VARIABLES
  pc,            \* the line the run of main() stands at
  file,          \* what image_path holds: None or a stored image
  decodeBound,   \* whether the global name `decode` of app.py is bound
  image,         \* decode_barcode: image (line 52)
  im,            \* preprocess_image: im (line 12)
  blur,          \* preprocess_image: blur (line 15)
  bw_im,         \* preprocess_image: bw_im, decode_barcode: preprocessed_image
  window,        \* whether the preview window is open
  keyPressed,    \* whether the user has pressed a key in the preview window
  barcodes,      \* decode_barcode: barcodes (line 55)
  result,        \* what decode_barcode returned: <<data, type>>
  stdout,        \* the lines main printed
  exc,           \* the exception that ended the run, None when none did
  trace,         \* the library calls made so far, in order
  decodeArg,     \* the image the decode primitive was handed
  pIn, pOut, pOut2, pThr,   \* SpecPre: input, output, output of the output
  xImage, xBarcode, xOut    \* SpecExtract: image, candidate, sub-image

pipeVars == <<pc, file, decodeBound, image, im, blur, bw_im, window,
              keyPressed, barcodes, result, stdout, exc, trace, decodeArg>>
preVars == <<pIn, pOut, pOut2, pThr>>
extVars == <<xImage, xBarcode, xOut>>
vars == <<pipeVars, preVars, extVars>>

PipeIdle ==
  /\ pc = "idle" /\ file = None /\ decodeBound = FALSE /\ image = Unset
  /\ im = Unset /\ blur = Unset /\ bw_im = Unset /\ window = FALSE
  /\ keyPressed = FALSE /\ barcodes = Unset /\ result = Unset
  /\ stdout = <<>> /\ exc = None /\ trace = <<>> /\ decodeArg = Unset
PreIdle == pIn = Unset /\ pOut = Unset /\ pOut2 = Unset /\ pThr = Unset
ExtIdle == xImage = Unset /\ xBarcode = Unset /\ xOut = Unset

\* ------------------------------------------------------- the run of main
\* The state when main() is entered. The environment decides what the path
\* holds and whether `decode` is bound: app.py imports only cv2 and numpy, so
\* the name resolves only if something else binds it in the module.
Init ==
  /\ pc = "main"
  /\ file \in FileContents
  /\ decodeBound \in BOOLEAN
  /\ image = Unset /\ im = Unset /\ blur = Unset /\ bw_im = Unset
  /\ window = FALSE /\ keyPressed = FALSE
  /\ barcodes = Unset /\ result = Unset /\ stdout = <<>> /\ exc = None
  /\ trace = <<>> /\ decodeArg = Unset
  /\ PreIdle /\ ExtIdle

\* An exception, and its raising with no handler anywhere in main.py or
\* app.py: the run ends there.
Exc(name) == [tag |-> "exc", name |-> name]
Raise(name) == pc' = "raised" /\ exc' = Exc(name)

\* The run of main() touches nothing of the other specifications.
PureIdle == UNCHANGED <<preVars, extVars>>

\* main, lines 5 to 11: build the decoder, set the path, call decode_barcode.
MainCall ==
  /\ pc = "main"
  /\ pc' = "imread"
  /\ UNCHANGED <<file, decodeBound, image, im, blur, bw_im, window, keyPressed,
                 barcodes, result, stdout, exc, trace, decodeArg>>
  /\ PureIdle

\* decode_barcode, line 52: image = cv2.imread(image_path).
DecodeImread ==
  /\ pc = "imread"
  /\ image' = ImreadColor(file)
  /\ trace' = Append(trace, "imread")
  /\ pc' = "pre_imread"
  /\ UNCHANGED <<file, decodeBound, im, blur, bw_im, window, keyPressed,
                 barcodes, result, stdout, exc, decodeArg>>
  /\ PureIdle

\* preprocess_image, line 12: im = cv2.imread(image_path, IMREAD_GRAYSCALE).
PreImread ==
  /\ pc = "pre_imread"
  /\ im' = ImreadGray(file)
  /\ trace' = Append(trace, "imread_gray")
  /\ pc' = "blur"
  /\ UNCHANGED <<file, decodeBound, image, blur, bw_im, window, keyPressed,
                 barcodes, result, stdout, exc, decodeArg>>
  /\ PureIdle

\* PreBlur when the unreadable image is handled by returning the absent
\* result instead of failing.
PreBlurHandled ==
  /\ pc = "blur"
  /\ IF im = None
       THEN /\ result' = <<None, None>>
            /\ pc' = "print"
            /\ UNCHANGED <<blur, trace>>
       ELSE /\ blur' = GaussianBlur(im)
            /\ trace' = Append(trace, "GaussianBlur")
            /\ pc' = "threshold"
            /\ UNCHANGED result
  /\ UNCHANGED <<file, decodeBound, image, im, bw_im, window, keyPressed,
                 barcodes, stdout, exc, decodeArg>>
  /\ PureIdle

\* preprocess_image, line 15: blur = cv2.GaussianBlur(im, (5, 5), 0), which
\* raises cv2.error on None.
PreBlur ==
  /\ pc = "blur"
  /\ IF im = None
       THEN /\ Raise("cv2.error")
            /\ UNCHANGED <<blur, trace>>
       ELSE /\ blur' = GaussianBlur(im)
            /\ trace' = Append(trace, "GaussianBlur")
            /\ pc' = "threshold"
            /\ UNCHANGED exc
  /\ UNCHANGED <<file, decodeBound, image, im, bw_im, window, keyPressed,
                 barcodes, result, stdout, decodeArg>>
  /\ PureIdle

\* preprocess_image, lines 18 to 20, and its return into line 53.
PreThreshold ==
  /\ pc = "threshold"
  /\ bw_im' \in Threshold(blur)
  /\ trace' = Append(trace, "threshold")
  /\ pc' = "imshow"
  /\ UNCHANGED <<file, decodeBound, image, im, blur, window, keyPressed,
                 barcodes, result, stdout, exc, decodeArg>>
  /\ PureIdle

\* show_preprocessed_image, line 42: cv2.imshow opens the window.
ShowImshow ==
  /\ pc = "imshow"
  /\ window' = TRUE
  /\ trace' = Append(trace, "imshow")
  /\ pc' = "waitKey"
  /\ UNCHANGED <<file, decodeBound, image, im, blur, bw_im, keyPressed,
                 barcodes, result, stdout, exc, decodeArg>>
  /\ PureIdle

\* The user presses a key while the window is open.
KeyPress ==
  /\ window
  /\ ~keyPressed
  /\ keyPressed' = TRUE
  /\ UNCHANGED <<pc, file, decodeBound, image, im, blur, bw_im, window,
                 barcodes, result, stdout, exc, trace, decodeArg>>
  /\ PureIdle

\* cv2.waitKey with a timeout: it returns whether or not a key was pressed.
ShowWaitKeyTimeout ==
  /\ pc = "waitKey"
  /\ trace' = Append(trace, "waitKey")
  /\ pc' = "destroy"
  /\ UNCHANGED <<file, decodeBound, image, im, blur, bw_im, window, keyPressed,
                 barcodes, result, stdout, exc, decodeArg>>
  /\ PureIdle

\* show_preprocessed_image, line 43: cv2.waitKey(0) returns once a key has
\* been pressed, and not before.
ShowWaitKey ==
  /\ pc = "waitKey"
  /\ keyPressed
  /\ trace' = Append(trace, "waitKey")
  /\ pc' = "destroy"
  /\ UNCHANGED <<file, decodeBound, image, im, blur, bw_im, window, keyPressed,
                 barcodes, result, stdout, exc, decodeArg>>
  /\ PureIdle

\* show_preprocessed_image, line 44: cv2.destroyAllWindows().
ShowDestroy ==
  /\ pc = "destroy"
  /\ window' = FALSE
  /\ trace' = Append(trace, "destroyAllWindows")
  /\ pc' = "decode"
  /\ UNCHANGED <<file, decodeBound, image, im, blur, bw_im, keyPressed,
                 barcodes, result, stdout, exc, decodeArg>>
  /\ PureIdle

\* detect_barcodes, line 26: self.barcode_detector.detect(preprocessed_image).
\* No line of decode_barcode or of main calls it.
detect_barcodes(tr) == Append(tr, "detect")

\* DecodeCall when decode_barcode hands the image to the detector first.
DecodeCallAfterDetect ==
  /\ pc = "decode"
  /\ IF decodeBound
       THEN /\ \E cands \in DecodeOutcomes : barcodes' = cands
            /\ decodeArg' = bw_im
            /\ trace' = Append(detect_barcodes(trace), "decode")
            /\ pc' = "loop"
            /\ UNCHANGED exc
       ELSE /\ Raise("NameError")
            /\ UNCHANGED <<barcodes, decodeArg, trace>>
  /\ UNCHANGED <<file, decodeBound, image, im, blur, bw_im, window, keyPressed,
                 result, stdout>>
  /\ PureIdle

\* decode_barcode, line 55: barcodes = decode(preprocessed_image). The name
\* lookup raises NameError when `decode` is not bound; a bound primitive
\* yields some list of candidates.
DecodeCall ==
  /\ pc = "decode"
  /\ IF decodeBound
       THEN /\ \E cands \in DecodeOutcomes : barcodes' = cands
            /\ decodeArg' = bw_im
            /\ trace' = Append(trace, "decode")
            /\ pc' = "loop"
            /\ UNCHANGED exc
       ELSE /\ Raise("NameError")
            /\ UNCHANGED <<barcodes, decodeArg, trace>>
  /\ UNCHANGED <<file, decodeBound, image, im, blur, bw_im, window, keyPressed,
                 result, stdout>>
  /\ PureIdle

\* The value of lines 57 to 63 for the list bs: the exception raised, or the
\* pair returned.
ReturnLast(bs) ==
  IF bs # <<>>
    THEN LET barcode == bs[Len(bs)]
         IN IF Utf8Valid(barcode.data)
              THEN [raised |-> "", ok |-> TRUE,
                    value |-> <<Str(Utf8Chars(barcode.data)), Sym(barcode.type)>>]
              ELSE [raised |-> "UnicodeDecodeError", ok |-> FALSE, value |-> Unset]
    ELSE [raised |-> "", ok |-> TRUE, value |-> <<None, None>>]

ReturnEmptyText(bs) ==
  IF bs # <<>>
    THEN LET barcode == bs[1]
         IN IF Utf8Valid(barcode.data)
              THEN [raised |-> "", ok |-> TRUE,
                    value |-> <<Str(Utf8Chars(barcode.data)), Sym(barcode.type)>>]
              ELSE [raised |-> "UnicodeDecodeError", ok |-> FALSE, value |-> Unset]
    ELSE [raised |-> "", ok |-> TRUE, value |-> <<Str(<<>>), None>>]

ReturnValue(bs) ==
  IF bs # <<>>
    THEN LET barcode == bs[1]
         IN IF Utf8Valid(barcode.data)
              THEN [raised |-> "", ok |-> TRUE,
                    value |-> <<Str(Utf8Chars(barcode.data)), Sym(barcode.type)>>]
              ELSE [raised |-> "UnicodeDecodeError", ok |-> FALSE, value |-> Unset]
    ELSE [raised |-> "", ok |-> TRUE, value |-> <<None, None>>]

\* decode_barcode, lines 57 to 63: the first candidate is decoded and
\* returned from inside the loop; an empty list falls through to line 63.
DecodeReturn ==
  /\ pc = "loop"
  /\ LET r == ReturnValue(barcodes)
     IN IF r.ok
          THEN result' = r.value /\ pc' = "print" /\ UNCHANGED exc
          ELSE Raise(r.raised) /\ UNCHANGED result
  /\ UNCHANGED <<file, decodeBound, image, im, blur, bw_im, window, keyPressed,
                 barcodes, stdout, trace, decodeArg>>
  /\ PureIdle

\* Python's truth value of a str or None.
Truthy(v) == v # None /\ v # Str(<<>>)

BarcodeLines(data, type) == <<<<"Barcode Data:", data>>, <<"Barcode Type:", type>>>>
NotFoundLines == <<<<"No barcode detected or decoded.">>>>

\* main, lines 11 to 18: unpack the pair and print.
MainPrint ==
  /\ pc = "print"
  /\ LET barcode_data == result[1]
         barcode_type == result[2]
     IN stdout' = IF Truthy(barcode_data)
                    THEN BarcodeLines(barcode_data, barcode_type)
                    ELSE NotFoundLines
  /\ pc' = "done"
  /\ UNCHANGED <<file, decodeBound, image, im, blur, bw_im, window, keyPressed,
                 barcodes, result, exc, trace, decodeArg>>
  /\ PureIdle

\* The steps the interpreter takes, and the one the user takes.
ProgramNext ==
  \/ MainCall
  \/ DecodeImread
  \/ PreImread
  \/ PreBlur
  \/ PreThreshold
  \/ ShowImshow
  \/ ShowWaitKey
  \/ ShowDestroy
  \/ DecodeCall
  \/ DecodeReturn
  \/ MainPrint

Next ==
  \/ MainCall
  \/ DecodeImread
  \/ PreImread
  \/ PreBlur
  \/ PreThreshold
  \/ ShowImshow
  \/ KeyPress
  \/ ShowWaitKey
  \/ ShowDestroy
  \/ DecodeCall
  \/ DecodeReturn
  \/ MainPrint

Spec == Init /\ [][Next]_vars

\* A sequential program takes its next step whenever it has one; whether
\* the user ever presses a key is left open.
FairSpec == Init /\ [][Next]_vars /\ WF_vars(ProgramNext)

\* ------------------------------------------------- preprocessing, alone
\* preprocess_image(image_path) for what the path holds: lines 12 to 20.
\* (An unreadable path raises at line 15: see PreBlur.)
preprocess_image(content) == Preprocess(ImreadGray(content))

\* The path holds a readable image.
InitPre ==
  /\ pIn \in Images
  /\ pOut = Unset /\ pOut2 = Unset /\ pThr = Unset
  /\ PipeIdle /\ ExtIdle

\* preprocess_image on the stored image.
PreprocessInput ==
  /\ pIn # Unset /\ pOut = Unset
  /\ pOut' \in preprocess_image(pIn)
  /\ UNCHANGED <<pIn, pOut2, pThr, pipeVars, extVars>>

\* preprocess_image on its own output, stored (losslessly) and read back.
PreprocessOutput ==
  /\ pOut # Unset /\ pOut2 = Unset
  /\ pOut2' \in preprocess_image(pOut)
  /\ UNCHANGED <<pIn, pOut, pThr, pipeVars, extVars>>

\* The threshold of line 18 alone, on the output of preprocess_image.
ThresholdOutput ==
  /\ pOut # Unset /\ pThr = Unset
  /\ pThr' \in Threshold(pOut)
  /\ UNCHANGED <<pIn, pOut, pOut2, pipeVars, extVars>>

NextPre ==
  \/ PreprocessInput
  \/ PreprocessOutput
  \/ ThresholdOutput

SpecPre == InitPre /\ [][NextPre]_vars

\* ---------------------------------------------------- extraction, alone
InitExtract ==
  /\ xImage \in ExtractImages
  /\ xBarcode \in [rect : Rects]
  /\ xOut = Unset
  /\ PipeIdle /\ PreIdle

\* extract_barcode(image, barcode).
ExtractBarcode ==
  /\ xImage # Unset /\ xOut = Unset
  /\ xOut' = extract_barcode(xImage, xBarcode)
  /\ UNCHANGED <<xImage, xBarcode, pipeVars, preVars>>

NextExtract == ExtractBarcode

SpecExtract == InitExtract /\ [][NextExtract]_vars

\* ------------------------------------------------------------ properties
\* decode_barcode has returned to main (line 11 holds its pair).
Returned == pc \in {"print", "done"}

\* How often the library call `name` has been made.
Calls(name) == Cardinality({i \in DOMAIN trace : trace[i] = name})

\* The decode primitive has yielded its list.
Decoded == Calls("decode") > 0

\* seq `a` occurs in seq `b` in order (not necessarily side by side).
RECURSIVE IsSubseq(_, _)
IsSubseq(a, b) ==
  IF a = <<>> THEN TRUE
  ELSE IF b = <<>> THEN FALSE
  ELSE IF Head(a) = Head(b) THEN IsSubseq(Tail(a), Tail(b))
  ELSE IsSubseq(a, Tail(b))

\* The pair lines 59 to 61 build from the candidate `barcode`.
PairOf(barcode) == <<Str(Utf8Chars(barcode.data)), Sym(barcode.type)>>

\* C1 as stated: whenever the decode primitive yields at least one
\* candidate, decode_barcode returns exactly (payload of the first candidate
\* decoded as UTF-8, type of the first candidate).
C1_AlwaysReturnsFirst ==
  (Decoded /\ barcodes # <<>> /\ pc # "loop") =>
    /\ Returned
    /\ result = PairOf(barcodes[1])

\* C1 as amended: when the decode primitive yields at least one candidate
\* and the payload of the first is valid UTF-8, decode_barcode returns
\* exactly (that payload decoded as UTF-8, type of the first candidate); when
\* the payload of the first is not valid UTF-8 the call raises
\* UnicodeDecodeError and returns nothing. The later candidates have no say
\* in either case, and payload and type come from the same candidate.
C1_FirstCandidate ==
  (Decoded /\ barcodes # <<>> /\ pc # "loop") =>
    IF Utf8Valid(barcodes[1].data)
      THEN Returned /\ result = PairOf(barcodes[1])
      ELSE pc = "raised" /\ exc = Exc("UnicodeDecodeError") /\ result = Unset

\* C1's case: two candidates that differ in payload and in type, the second
\* one not even valid UTF-8, and the call has returned the first.
C1_Witness ==
  /\ Returned /\ Decoded
  /\ Len(barcodes) = 2
  /\ barcodes[1].data = <<195, 169>>
  /\ barcodes[1].type # barcodes[2].type
  /\ ~Utf8Valid(barcodes[2].data)
  /\ result = <<Str(<<233>>), Sym(barcodes[1].type)>>

\* C2: when the decode step yields zero candidates, decode_barcode returns
\* (None, None): both components absent, never only one.
C2_NoCandidates ==
  (Decoded /\ barcodes = <<>> /\ pc # "loop") =>
    /\ Returned
    /\ result[1] = None
    /\ result[2] = None

\* C2's case: the decode primitive yielded the empty list and the call
\* returned.
C2_Witness == Returned /\ Decoded /\ barcodes = <<>> /\ result = <<None, None>>

\* C6: main prints the barcode data and type whenever decode_barcode
\* returned a decoded barcode, and the not-found message exactly when it
\* returned the absent result (the empty payload included).
C6_PrintsWhatWasReturned ==
  pc = "done" =>
    IF result = <<None, None>>
      THEN stdout = NotFoundLines
      ELSE stdout = BarcodeLines(result[1], result[2])

\* C7: when the path holds no readable image the preprocessing step fails:
\* the run never gets past line 15, it ends there in an uncaught cv2.error,
\* the decode primitive is never invoked, decode_barcode returns no pair and
\* main prints nothing.
C7_UnreadableFails ==
  file = None =>
    /\ pc \in {"main", "imread", "pre_imread", "blur", "raised"}
    /\ pc = "raised" => exc = Exc("cv2.error")
    /\ pc # "raised" => ENABLED Next
    /\ ~Decoded
    /\ result = Unset
    /\ stdout = <<>>
    /\ ~window

\* C7's case: the run has ended in the failure.
C7_Witness ==
  /\ file = None /\ pc = "raised" /\ exc = Exc("cv2.error")
  /\ trace = <<"imread", "imread_gray">>

\* C8 as stated: every run of decode_barcode that returns has loaded the
\* image, converted it to grey, blurred it, thresholded it, handed it to the
\* external detector and then to the decoder, in this order.
C8_DetectorBeforeDecoder ==
  Returned =>
    IsSubseq(<<"imread", "imread_gray", "GaussianBlur", "threshold", "detect",
               "decode">>, trace)

\* C8 as amended: every run of decode_barcode that returns has made exactly
\* these calls in this order: load, grey load, Gaussian blur, Otsu threshold,
\* the preview (imshow, waitKey, destroyAllWindows), the decode primitive on
\* the thresholded image; the external detector is never invoked.
C8_PipelineOrder ==
  /\ Calls("detect") = 0
  /\ Returned =>
       /\ trace = <<"imread", "imread_gray", "GaussianBlur", "threshold",
                    "imshow", "waitKey", "destroyAllWindows", "decode">>
       /\ decodeArg = bw_im
       /\ bw_im \in Threshold(GaussianBlur(file))

\* C8's case: a run that returned a decoded barcode.
C8_Witness == pc = "done" /\ Decoded /\ barcodes # <<>> /\ decodeArg = bw_im

\* The parts of C10 that hold in every state.
PreviewSafety ==
  /\ Calls("decode") <= 1
  /\ window => bw_im # Unset /\ pc \in {"waitKey", "destroy"}
  /\ ~keyPressed =>
       /\ ~Decoded
       /\ result = Unset
       /\ pc \in {"main", "imread", "pre_imread", "blur", "threshold", "imshow",
                  "waitKey", "raised"}
       /\ pc = "raised" => exc = Exc("cv2.error")
  /\ pc \in {"decode", "loop", "print", "done"} =>
       /\ ~window
       /\ Calls("destroyAllWindows") = 1
  /\ Decoded => IsSubseq(<<"threshold", "imshow", "waitKey",
                           "destroyAllWindows", "decode">>, trace)

\* Line 55 has been executed: the decode step was reached and left.
PastDecodeLine ==
  \/ pc \in {"loop", "print", "done"}
  \/ pc = "raised" /\ exc \in {Exc("NameError"), Exc("UnicodeDecodeError")}

\* C10: the preview window is shown after preprocessing and blocks until a
\* key press: no decode and no result before the key press, the window is
\* destroyed before decoding starts, the decode primitive is invoked at most
\* once, and once the key is pressed the call goes on to the decode step.
C10_PreviewBlocks == [](PreviewSafety) /\ (keyPressed ~> PastDecodeLine)

\* C10's case: the key was pressed and the decode step followed.
C10_Witness ==
  /\ keyPressed /\ Decoded /\ pc = "loop" /\ ~window
  /\ trace[Len(trace) - 1] = "destroyAllWindows"

\* C3 as stated: preprocessing the output of preprocessing gives that same
\* output, for every input image. (Where two Otsu levels tie, the statement is
\* read in its favour: it fails only if no pick gives the output back.)
C3_PreprocessIdempotent == pOut2 # Unset => pOut \in preprocess_image(pOut)

\* C3 as amended: thresholding the output of preprocessing (line 18 alone,
\* without the blur of line 15) gives that same output, for every input image.
C3_ThresholdIdempotent == pThr # Unset => pThr = pOut

\* C3's case: an output that the threshold leaves alone and that
\* preprocessing as a whole changes, whichever way a tie goes.
C3_Witness ==
  /\ pThr # Unset /\ pOut2 # Unset
  /\ pThr = pOut
  /\ pOut \notin preprocess_image(pOut)
  /\ LevelsOf(pOut) = {0, 255}

\* C5: for every readable image, preprocess_image returns an image of the
\* same height and width whose every pixel is 0 or 255.
C5_BinarySameSize ==
  pOut # Unset =>
    /\ pOut.h = pIn.h
    /\ pOut.w = pIn.w
    /\ DOMAIN pOut.px = 1..pIn.h
    /\ \A r \in 1..pIn.h :
         /\ DOMAIN pOut.px[r] = 1..pIn.w
         /\ \A c \in 1..pIn.w : pOut.px[r][c] \in {0, 255}

\* C5's case: an input with grey pixels of three levels, an output with two.
C5_Witness ==
  /\ pOut # Unset
  /\ LevelsOf(pIn) = {0, 100, 255}
  /\ LevelsOf(pOut) = {0, 255}
  /\ pIn.h = 2 /\ pIn.w = 3

\* The rectangle of the candidate lies entirely inside the image.
InBounds(img, rect) ==
  /\ 0 <= rect[1]
  /\ 0 <= rect[2]
  /\ rect[1] + rect[3] <= img.w
  /\ rect[2] + rect[4] <= img.h

\* C4: for a rectangle (x, y, w, h) inside the image, extract_barcode
\* returns h rows and w columns, and the pixel at (r, c) of the result is the
\* pixel at (y + r, x + c) of the image (here with r and c counted from 1).
C4_InBoundsCrop ==
  (xOut # Unset /\ InBounds(xImage, xBarcode.rect)) =>
    LET x == xBarcode.rect[1]
        y == xBarcode.rect[2]
        w == xBarcode.rect[3]
        h == xBarcode.rect[4]
    IN /\ xOut.h = h
       /\ xOut.w = w
       /\ DOMAIN xOut.px = 1..h
       /\ \A r \in 1..h :
            /\ DOMAIN xOut.px[r] = 1..w
            /\ \A c \in 1..w : xOut.px[r][c] = xImage.px[y + r][x + c]

\* C4's case: a proper sub-rectangle, off both axes' origins and not square.
C4_Witness ==
  /\ xOut # Unset
  /\ xImage.h = 3 /\ xImage.w = 3
  /\ xBarcode.rect = <<1, 0, 2, 3>>
  /\ xOut.px = <<<<2, 3>>, <<5, 6>>, <<8, 9>>>>

\* C9: extract_barcode checks no bounds. A rectangle with x >= 0 and y >= 0
\* that passes the right or the bottom edge yields min(h, H - y) rows and
\* min(w, W - x) columns, not below 0; and whatever the rectangle, the
\* result has at most h rows and at most w columns.
C9_TruncatedCrop ==
  xOut # Unset =>
    LET x == xBarcode.rect[1]
        y == xBarcode.rect[2]
        w == xBarcode.rect[3]
        h == xBarcode.rect[4]
    IN /\ xOut.h <= h
       /\ xOut.w <= w
       /\ (x >= 0 /\ y >= 0 /\ (x + w > xImage.w \/ y + h > xImage.h)) =>
            /\ xOut.h = Max(0, Min(h, xImage.h - y))
            /\ xOut.w = Max(0, Min(w, xImage.w - x))
            /\ \A r \in 1..xOut.h : \A c \in 1..xOut.w :
                 xOut.px[r][c] = xImage.px[y + r][x + c]

\* C9's case: a rectangle that passes the right and the bottom edge.
C9_Witness ==
  /\ xOut # Unset
  /\ xImage.h = 3 /\ xImage.w = 2
  /\ xBarcode.rect = <<1, 2, 3, 4>>
  /\ xOut.h = 1 /\ xOut.w = 1
  /\ xOut.px = <<<<6>>>>

=============================================================================
